---------------------------- MODULE Spec2Model ----------------------------
(***************************************************************************)
(* Model of designate/mdns/notify.py: NotifyEndpoint.get_serial_number and  *)
(* NotifyEndpoint._make_and_send_dns_message.                               *)
(*                                                                          *)
(* Every invocation of get_serial_number is a poll; its locals are the      *)
(* components [p] of the variables below.  The arguments host, port and     *)
(* timeout are only passed on to the transport and to the log messages and  *)
(* delay / retry_interval are only passed to time.sleep: they decide no     *)
(* branch, so the sleeps are recorded as events and the values are left     *)
(* out.  dnsutils.send_dns_message is the transport: its outcome is drawn   *)
(* from Outcomes at every send.                                             *)
(***************************************************************************)
EXTENDS Integers, Sequences, FiniteSets, TLC

\* ------------------------------------------------------------------ bounds
MaxRetriesBound == 3

\* largest max_retries of two polls that run at the same time
PairRetriesBound == 2

\* ------------------------------------------------------- values and inputs
AllPolls == {1, 2}

\* Python's None for actual_serial: a value outside the unsigned serials.
None == -1

\* Python's None for a response.
NoResponse == [kind |-> "None"]

ZoneNames == {"example.com."}
ZoneSerials == {0, 42}
ZoneActions == {"CREATE", "UPDATE", "DELETE", "NONE"}
Zones == [name : ZoneNames, serial : ZoneSerials, action : ZoneActions]

\* serials a nameserver may report in its SOA record
Serials == {40, 42}

Rcodes == {"NOERROR", "FORMERR", "SERVFAIL", "NXDOMAIN", "REFUSED"}

RR(n, c, t, s) == [name |-> n, rdclass |-> c, rdtype |-> t, serial |-> s]

\* answer sections: empty, one SOA of the zone, one record that differs in
\* name, class or type, and two records
Answers ==
    {<< >>}
    \cup {<<RR("example.com.", "IN", "SOA", s)>> : s \in Serials}
    \cup {<<RR("other.org.", "IN", "SOA", 42)>>,
          <<RR("example.com.", "CH", "SOA", 42)>>,
          <<RR("example.com.", "IN", "A", 42)>>,
          <<RR("example.com.", "IN", "SOA", 42),
            RR("example.com.", "IN", "SOA", 42)>>}

\* a reply: every rcode with the AA flag set or unset and an empty or a
\* non-empty answer; NOERROR with every answer section
Replies ==
    {r \in [kind : {"reply"}, rcode : Rcodes, aa : BOOLEAN, answer : Answers] :
        \/ r.rcode = "NOERROR"
        \/ r.answer \in {<< >>, <<RR("example.com.", "IN", "SOA", 42)>>}}

\* what dnsutils.send_dns_message can do: return a reply, or raise
\* socket.error (with an errno), dns.exception.Timeout or BadResponse
Raised ==
    {[kind |-> "socket.error", errno |-> "EAGAIN"],
     [kind |-> "socket.error", errno |-> "ECONNREFUSED"],
     [kind |-> "Timeout"],
     [kind |-> "BadResponse"]}

Outcomes == Replies \cup Raised

\* ---------------------------------------------------------------- state
VARIABLES
    pc,             \* position of each poll
    zone,           \* argument zone (name, serial, action)
    max_retries,    \* argument max_retries of get_serial_number
    actual_serial,  \* get_serial_number: actual_serial
    status,         \* get_serial_number: status
    retries_left,   \* get_serial_number: retries_left
    response,       \* get_serial_number: response
    retry_cnt,      \* get_serial_number: retry_cnt
    dns_message,    \* _make_and_send_dns_message: dns_message
    budget,         \* _make_and_send_dns_message: parameter max_retries
    retry,          \* _make_and_send_dns_message: retry
    sent_response,  \* _make_and_send_dns_message: response
    exit,           \* which break ended the outer loop
    nameserver,     \* the outcomes the transport may give to a send
    log,            \* the entries written to LOG by the poll, in order
    sent_messages,  \* history: the messages given to send_dns_message
    built,          \* the last call of _make_dns_message and what it returned
    trace,          \* history: the sleeps and sends of the poll, in order
    \* a notification handler (nova.py, nova_custom.py)
    hpc,            \* position of process_notification
    plugin,         \* __plugin_name__ of the handler
    event_type,     \* argument event_type
    payload,        \* argument payload: hostname and versions of fixed_ips
    tenant_zone,    \* _create_records: zone, and how the lookup ended
    todo,           \* _create_records: the calls still to be made
    records,        \* _delete_records: records
    idx,            \* _delete_records: position of the for loop in records
    api_calls,      \* history: the calls made to central_api, in order
    hlog            \* the entries written to LOG by the handler, in order

pollVars == <<pc, zone, max_retries, actual_serial, status, retries_left,
              response, retry_cnt, dns_message, budget, retry, sent_response,
              exit, nameserver, log, sent_messages, built, trace>>

handlerVars == <<hpc, plugin, event_type, payload, tenant_zone, todo,
                 records, idx, api_calls, hlog>>

vars == <<pollVars, handlerVars>>

outerVars == <<zone, max_retries, actual_serial, status, retries_left,
               response, retry_cnt, exit>>
innerVars == <<dns_message, budget, retry, sent_response>>

NoMessage == [name |-> "", rdtype |-> "", opcode |-> "", flags |-> {}]
NoZone == [name |-> "", serial |-> 0, action |-> "NONE"]
NotBuilt == [zone_name |-> "", notify |-> FALSE, message |-> NoMessage]

\* zone names _make_dns_message is called with
BuildNames == {"example.com.", "other.org."}

\* ----------------------------------------------------------- history
Event(e, w, s) == [ev |-> e, what |-> w, serial |-> s]

\* what a send was seen to produce, in the terms of the DNS message:
\*   no_zone        rcode NXDOMAIN, REFUSED or SERVFAIL, or NOERROR with an
\*                  empty answer
\*   invalid_empty  another rcode with an empty answer
\*   invalid        another rcode with an answer, or an answer without AA
\*   soa            NOERROR, AA, one record: the SOA of the zone (its serial)
\*   unexpected     NOERROR, AA, any other answer
Observed(o, z) ==
    IF o.kind = "socket.error"
    THEN Event("send", IF o.errno = "EAGAIN" THEN "EAGAIN" ELSE "fatal", None)
    ELSE IF o.kind # "reply" THEN Event("send", o.kind, None)
    ELSE IF o.rcode \in {"NXDOMAIN", "REFUSED", "SERVFAIL"}
    THEN Event("send", "no_zone", None)
    ELSE IF o.answer = << >>
    THEN Event("send", IF o.rcode = "NOERROR" THEN "no_zone"
                                              ELSE "invalid_empty", None)
    ELSE IF o.rcode # "NOERROR" \/ ~o.aa THEN Event("send", "invalid", None)
    ELSE IF /\ Len(o.answer) = 1
            /\ o.answer[1] = RR(z.name, "IN", "SOA", o.answer[1].serial)
    THEN Event("send", "soa", o.answer[1].serial)
    ELSE Event("send", "unexpected", None)

Sends(t) == SelectSeq(t, LAMBDA e : e.ev = "send")
Sleeps(t, w) == SelectSeq(t, LAMBDA e : e.ev = "sleep" /\ e.what = w)

\* ------------------------------------------------------------ log entries
\* a LOG call: its level, the line of the call and the values its message
\* is given
LogEntry(level, line, ctx) == [level |-> level, line |-> line, ctx |-> ctx]

\* lines 149-153, 164-170, 176-183, 189-195, 225-230
SendingLog == LogEntry("info", 149, {"msg", "zone", "host", "port"})
EagainLog ==
    LogEntry("info", 164, {"msg", "zone", "host", "port", "timeout", "retry"})
TimeoutLog ==
    LogEntry("warning", 176,
             {"msg", "zone", "host", "port", "timeout", "retry"})
BadResponseLog ==
    LogEntry("warning", 189,
             {"msg", "zone", "host", "port", "timeout", "retry"})
FailedLog ==
    LogEntry("warning", 225, {"msg", "zone", "host", "port", "response"})

\* bug: the message built without the serials
RetryMsg_no_serial == {"zone", "host", "port", "retries"}

\* lines 102-107: msg, with the zone, host, port, the expected and the actual
\* serial and the retries left
RetryMsg == {"zone", "host", "port", "serial", "retries"}

\* what the except branch of an outcome logs
RaisedLog(o) ==
    IF o.kind = "Timeout" THEN <<TimeoutLog>>
    ELSE IF o.kind = "BadResponse" THEN <<BadResponseLog>>
    ELSE IF o.kind = "socket.error" /\ o.errno = "EAGAIN" THEN <<EagainLog>>
    ELSE << >>

\* ------------------------------------------------------ pure functions
\* dns.message.make_query(zone_name, dns.rdatatype.SOA): a query with the
\* RD flag set
make_query(zone_name, rdtype) ==
    [name |-> zone_name, rdtype |-> rdtype, opcode |-> "QUERY",
     flags |-> {"RD"}]

\* bug: the flags of make_query not cleared
make_dns_message_flags_kept(zone_name, notify) ==
    LET q == make_query(zone_name, "SOA")
    IN IF notify
       THEN [q EXCEPT !.opcode = "NOTIFY", !.flags = @ \cup {"AA"}]
       ELSE [q EXCEPT !.opcode = "QUERY", !.flags = @ \cup {"RD"}]

\* _make_dns_message, lines 244-254
make_dns_message(zone_name, notify) ==
    LET q == make_query(zone_name, "SOA")
        cleared == [q EXCEPT !.flags = {}]
    IN IF notify
       THEN [cleared EXCEPT !.opcode = "NOTIFY", !.flags = @ \cup {"AA"}]
       ELSE [cleared EXCEPT !.opcode = "QUERY", !.flags = @ \cup {"RD"}]

refused_statuses == {"NXDOMAIN", "REFUSED", "SERVFAIL"}

\* response.rcode() and dns.rcode.from_flags(response.flags,
\* response.ednsflags) read the same bits of the response
rcode(r) == r.rcode
from_flags(r) == r.rcode

\* bug: the errno test turned round
IsFatal_inverted(o) == o.kind = "socket.error" /\ o.errno = "EAGAIN"

\* except socket.error: e.errno != EAGAIN  =>  raise
IsFatal(o) == o.kind = "socket.error" /\ o.errno # "EAGAIN"

\* bug: a Timeout not retried
IsTransient_eagain_only(o) == o.kind = "socket.error" /\ o.errno = "EAGAIN"

\* bug: BadResponse retried like a Timeout
IsTransient_bad_response(o) ==
    \/ o.kind = "socket.error" /\ o.errno = "EAGAIN"
    \/ o.kind \in {"Timeout", "BadResponse"}

\* the except branches that sleep and continue
IsTransient(o) ==
    \/ o.kind = "socket.error" /\ o.errno = "EAGAIN"
    \/ o.kind = "Timeout"

\* bug: one attempt too many
InnerLoopRuns_off_by_one(r, b) == r <= b

\* bug: the test made after the first pass only
InnerLoopRuns_do_while(r, b) == r = 0 \/ r < b

\* while retry < max_retries
InnerLoopRuns(r, b) == r < b

\* bug: the AA flag not looked at
ValidityFilter_no_aa(r) ==
    IF r = NoResponse THEN NoResponse
    ELSE IF \/ rcode(r) \in refused_statuses
            \/ (rcode(r) = "NOERROR" /\ r.answer = << >>)
    THEN r
    ELSE IF from_flags(r) # "NOERROR" THEN NoResponse
    ELSE r

\* bug: the AA test made before the no-zone test
ValidityFilter_aa_first(r) ==
    IF r = NoResponse THEN NoResponse
    ELSE IF ~r.aa \/ from_flags(r) \notin (refused_statuses \cup {"NOERROR"})
    THEN NoResponse
    ELSE r

\* lines 202-233: what _make_and_send_dns_message returns as response
ValidityFilter(r) ==
    IF r = NoResponse THEN NoResponse
    ELSE IF \/ rcode(r) \in refused_statuses
            \/ (rcode(r) = "NOERROR" /\ r.answer = << >>)
    THEN r
    ELSE IF ~r.aa \/ from_flags(r) # "NOERROR" THEN NoResponse
    ELSE r

\* lines 76-79
IsNoZoneReply(r) ==
    /\ r # NoResponse
    /\ (rcode(r) \in refused_statuses \/ r.answer = << >>)

\* bug: the short circuit taken for DELETE only
ZoneNotExpected_delete_only(z) == z.serial = 0 /\ z.action = "DELETE"

\* line 81
ZoneNotExpected(z) == z.serial = 0 /\ z.action \in {"DELETE", "NONE"}

\* bug: the first record taken whatever the number of records
IsSoaAnswer_any_count(r, z) ==
    /\ r # NoResponse
    /\ Len(r.answer) >= 1
    /\ r.answer[1].name = z.name
    /\ r.answer[1].rdclass = "IN"
    /\ r.answer[1].rdtype = "SOA"

\* lines 85-88
IsSoaAnswer(r, z) ==
    /\ r # NoResponse
    /\ Len(r.answer) = 1
    /\ r.answer[1].name = z.name
    /\ r.answer[1].rdclass = "IN"
    /\ r.answer[1].rdtype = "SOA"

\* bug: retries_left kept on the endpoint and not set again by a later call
InitialRetries_kept(m) == IF pc[1] # "idle" THEN retries_left[1] ELSE m

\* line 70
InitialRetries(m) == m

\* bug: every call of _make_and_send_dns_message given the whole max_retries
BudgetGiven_whole(left, m) == m

\* line 74: the last argument of _make_and_send_dns_message is retries_left
BudgetGiven(left, m) == left

\* bug: status set to 'ERROR' again at the start of each pass
StatusKept_reset(st) == "ERROR"

\* line 69: status is assigned before the loop only; a pass without a
\* no-zone reply leaves it as it is
StatusKept(st) == st

\* bug: no SUCCESS for a zone that is not expected to exist
Converged_expected(serial, z) ==
    /\ serial # None
    /\ serial >= z.serial
    /\ ~(z.serial = 0 /\ z.action \in {"DELETE", "NONE"})

\* bug: any serial taken as good enough
Converged_any(serial, z) == serial # None

\* bug: > for >=
Converged_strict(serial, z) == serial # None /\ serial > z.serial

\* line 96
Converged(serial, z) == serial # None /\ serial >= z.serial

\* bug: the budget reduced before the convergence check
RetriesOnBreak_decremented(left, cnt) == left - cnt

\* lines 96-99: the break on SUCCESS or on the short circuit comes before
\* line 101, so retries_left keeps its value
RetriesOnBreak(left, cnt) == left

\* bug: retries_left kept on the endpoint and shared by the polls
RetriesAfter_shared(left, cnt) == retries_left[1] - cnt

\* bug: the retries counted instead of the attempts
RetriesAfter_undercount(left, cnt) == left - (cnt - 1)

\* line 101
RetriesAfter(left, cnt) == left - cnt

\* bug: the outer loop goes round without sleeping
OuterSleep_none == << >>

\* line 116: time.sleep(retry_interval)
OuterSleep == <<Event("sleep", "retry_outer", None)>>

\* bug: the loop left with one retry unused
Exhausted_early(left) == left <= 1

\* line 109: if not retries_left
Exhausted(left) == left = 0

\* ------------------------------------------------ notification handlers
\* nova.py (plugin nova_fixed) and nova_custom.py (plugin nova_custom)

\* most records find_records returns
MaxRecords == 2

Plugins == {"nova_fixed", "nova_custom"}
CreateEnd == "compute.instance.create.end"
DeleteStart == "compute.instance.delete.start"
EventTypes == {CreateEnd, DeleteStart}

\* names as sequences of labels; a zone name ends with its final dot
ExampleCom == <<"example", "com", ".">>
SubExampleCom == <<"sub", "example", "com", ".">>
ExcludedCom == <<"excluded", "com", ".">>
TenantZones == {ExampleCom, SubExampleCom, ExcludedCom}
Hostnames ==
    {<<"vm1", "sub", "example", "com">>,
     <<"vm1", "excluded", "com">>,
     <<"vm1", "nowhere", "net">>}

\* cfg.CONF[self.name].exclude_zones
exclude_zones == {ExcludedCom}

\* the order of the zone names as strings: "example.com." < "excluded.com."
\* < "sub.example.com."
NameRank(name) ==
    IF name = ExampleCom THEN 1 ELSE IF name = ExcludedCom THEN 2 ELSE 3

\* payload: the hostname and the IP versions found in fixed_ips
IpVersions == {4, 6}
Payloads == [hostname : Hostnames, fixed_ips : SUBSET IpVersions]

\* the classes derived from Exception that are raised here
ExceptionClasses ==
    {"ZoneNotFound", "DuplicateRecordSet", "NameError", "AttributeError",
     "Exception"}

NoLookup == [exc |-> "unset", name |-> << >>]
Raise(e) == [exc |-> e, name |-> << >>]
Found(name) == [exc |-> "none", name |-> name]

\* a call of central_api: the method, the record it is about (0: none) and
\* "ok" or the exception it raised
Api(op, arg, out) == [op |-> op, arg |-> arg, out |-> out]
HLog(level, what) == [level |-> level, what |-> what]

\* x.name[:-1]
NameWithoutDot(name) == SubSeq(name, 1, Len(name) - 1)

\* str.endswith
EndsWith(s1, s2) ==
    /\ Len(s2) <= Len(s1)
    /\ SubSeq(s1, Len(s1) - Len(s2) + 1, Len(s1)) = s2

\* _get_zone on the zones find_zones returned.  nova.py does not import cfg:
\* the second operand of 'and' at line 49 raises NameError as soon as the
\* first one holds for a zone, so its _get_zone never returns a zone.
get_zone(pl, hostname, zones) ==
    LET matches == {x \in zones : EndsWith(hostname, NameWithoutDot(x))}
        valid_zones == {x \in matches : x \notin exclude_zones}
    IN IF pl = "nova_fixed"
       THEN IF matches # {} THEN Raise("NameError") ELSE Raise("ZoneNotFound")
       ELSE IF valid_zones = {} THEN Raise("ZoneNotFound")
       ELSE Found(CHOOSE x \in valid_zones :
                    \A y \in valid_zones : NameRank(y) <= NameRank(x))

\* bug: only ZoneNotFound caught around the lookup
LookupCaught_zone_only(e) == e = "ZoneNotFound"

\* _create_records: except exceptions.ZoneNotFound / except Exception
LookupCaught(e) == e = "ZoneNotFound" \/ e \in ExceptionClasses

\* bug: only ZoneNotFound caught around delete_record
DeleteCaught_zone_only(e) == e = "ZoneNotFound"

\* _delete_records: except exceptions.ZoneNotFound / except Exception
DeleteCaught(e) == e = "ZoneNotFound" \/ e \in ExceptionClasses

\* what the handlers log for an exception they catch
CaughtLog(e, what) ==
    IF e = "ZoneNotFound" THEN HLog("warn", what) ELSE HLog("error", what)

\* the calls of _create_records for the first interface of each version
Steps(fixed_ips) ==
    (IF 4 \in fixed_ips
     THEN <<[step |-> "record", version |-> 4],
            [step |-> "reverse", version |-> 4]>>
     ELSE << >>)
    \o (IF 6 \in fixed_ips
        THEN <<[step |-> "record", version |-> 6],
               [step |-> "reverse", version |-> 6]>>
        ELSE << >>)

InitNotification ==
    /\ hpc = "idle"
    /\ plugin = "nova_fixed"
    /\ event_type = ""
    /\ payload = [hostname |-> << >>, fixed_ips |-> {}]
    /\ tenant_zone = NoLookup
    /\ todo = << >>
    /\ records = << >>
    /\ idx = 0
    /\ api_calls = << >>
    /\ hlog = << >>

\* ------------------------------------------------------------ actions
InitPolls ==
    /\ pc = [p \in AllPolls |-> "idle"]
    /\ zone = [p \in AllPolls |-> NoZone]
    /\ max_retries = [p \in AllPolls |-> 0]
    /\ actual_serial = [p \in AllPolls |-> None]
    /\ status = [p \in AllPolls |-> "ERROR"]
    /\ retries_left = [p \in AllPolls |-> 0]
    /\ response = [p \in AllPolls |-> NoResponse]
    /\ retry_cnt = [p \in AllPolls |-> 0]
    /\ dns_message = [p \in AllPolls |-> NoMessage]
    /\ budget = [p \in AllPolls |-> 0]
    /\ retry = [p \in AllPolls |-> 0]
    /\ sent_response = [p \in AllPolls |-> NoResponse]
    /\ exit = [p \in AllPolls |-> "none"]
    /\ log = [p \in AllPolls |-> << >>]
    /\ sent_messages = [p \in AllPolls |-> << >>]
    /\ built = NotBuilt
    /\ trace = [p \in AllPolls |-> << >>]
    /\ InitNotification

\* no call made yet; the nameserver may answer a send in any way
Init ==
    /\ InitPolls
    /\ nameserver = Outcomes

\* get_serial_number(z, ..., m, ...) runs up to its first sleep: lines 68-71
Call(p, z, m) ==
    /\ pc[p] = "idle"
    /\ zone' = [zone EXCEPT ![p] = z]
    /\ max_retries' = [max_retries EXCEPT ![p] = m]
    /\ retries_left' = [retries_left EXCEPT ![p] = InitialRetries(m)]
    /\ actual_serial' = [actual_serial EXCEPT ![p] = None]
    /\ status' = [status EXCEPT ![p] = "ERROR"]
    /\ trace' = [trace EXCEPT ![p] = <<Event("sleep", "delay", None)>>]
    /\ pc' = [pc EXCEPT ![p] = "call"]
    /\ UNCHANGED <<response, retry_cnt, exit, nameserver, log, sent_messages,
                   built>>
    /\ UNCHANGED innerVars
    /\ UNCHANGED handlerVars

\* get_serial_number is called
GetSerialNumber(p) ==
    \E z \in Zones, m \in 0..MaxRetriesBound : Call(p, z, m)

\* _make_and_send_dns_message is called with the budget that is left:
\* lines 73-74 and 142-147
MakeAndSend(p) ==
    /\ pc[p] = "call"
    /\ dns_message' = [dns_message EXCEPT
                         ![p] = make_dns_message(zone[p].name, FALSE)]
    /\ budget' = [budget EXCEPT
                    ![p] = BudgetGiven(retries_left[p], max_retries[p])]
    /\ retry' = [retry EXCEPT ![p] = 0]
    /\ sent_response' = [sent_response EXCEPT ![p] = NoResponse]
    /\ pc' = [pc EXCEPT ![p] =
                IF InnerLoopRuns(0, BudgetGiven(retries_left[p],
                                                max_retries[p]))
                THEN "send" ELSE "filter"]
    /\ UNCHANGED outerVars
    /\ UNCHANGED handlerVars
    /\ UNCHANGED <<nameserver, log, sent_messages, built, trace>>

\* one pass of the inner loop, lines 148-200: a send and its outcome
Attempt(p) ==
    /\ pc[p] = "send"
    /\ \E o \in nameserver :
        /\ retry' = [retry EXCEPT ![p] = @ + 1]
        /\ log' = [log EXCEPT ![p] = @ \o <<SendingLog>> \o RaisedLog(o)]
        /\ sent_messages' = [sent_messages EXCEPT
                               ![p] = Append(@, dns_message[p])]
        /\ IF o.kind = "reply"
           THEN /\ sent_response' = [sent_response EXCEPT ![p] = o]
                /\ pc' = [pc EXCEPT ![p] = "filter"]
                /\ trace' = [trace EXCEPT ![p] = Append(@, Observed(o, zone[p]))]
           ELSE IF IsFatal(o)
           THEN /\ pc' = [pc EXCEPT ![p] = "raised"]
                /\ trace' = [trace EXCEPT ![p] = Append(@, Observed(o, zone[p]))]
                /\ UNCHANGED sent_response
           ELSE IF IsTransient(o)
           THEN /\ pc' = [pc EXCEPT ![p] =
                            IF InnerLoopRuns(retry[p] + 1, budget[p])
                            THEN "send" ELSE "filter"]
                /\ trace' = [trace EXCEPT ![p] =
                               @ \o <<Observed(o, zone[p]),
                                      Event("sleep", "retry_inner", None)>>]
                /\ UNCHANGED sent_response
           ELSE /\ pc' = [pc EXCEPT ![p] = "filter"]
                /\ trace' = [trace EXCEPT ![p] = Append(@, Observed(o, zone[p]))]
                /\ UNCHANGED sent_response
    /\ UNCHANGED outerVars
    /\ UNCHANGED handlerVars
    /\ UNCHANGED <<dns_message, budget, nameserver, built>>

\* lines 202-233: _make_and_send_dns_message returns (response, retry)
Return(p) ==
    /\ pc[p] = "filter"
    /\ response' = [response EXCEPT ![p] = ValidityFilter(sent_response[p])]
    /\ log' = [log EXCEPT ![p] =
                 IF /\ sent_response[p] # NoResponse
                    /\ ValidityFilter(sent_response[p]) = NoResponse
                 THEN Append(@, FailedLog) ELSE @]
    /\ retry_cnt' = [retry_cnt EXCEPT ![p] = retry[p]]
    /\ pc' = [pc EXCEPT ![p] = "classify"]
    /\ UNCHANGED <<zone, max_retries, actual_serial, status, retries_left,
                   exit>>
    /\ UNCHANGED innerVars
    /\ UNCHANGED handlerVars
    /\ UNCHANGED <<nameserver, sent_messages, built, trace>>

\* lines 76-119: the rest of one pass of the outer loop
Classify(p) ==
    /\ pc[p] = "classify"
    /\ LET r == response[p]
           z == zone[p]
           nozone == IsNoZoneReply(r)
           short == nozone /\ ZoneNotExpected(z)
           serial == IF short THEN 0
                     ELSE IF ~nozone /\ IsSoaAnswer(r, z)
                     THEN r.answer[1].serial
                     ELSE actual_serial[p]
           success == ~short /\ Converged(serial, z)
           left == RetriesAfter(retries_left[p], retry_cnt[p])
       IN /\ actual_serial' = [actual_serial EXCEPT ![p] = serial]
          /\ status' = [status EXCEPT ![p] =
                          IF success THEN "SUCCESS"
                          ELSE IF nozone THEN "NO_ZONE" ELSE StatusKept(@)]
          /\ IF short \/ success
             THEN /\ exit' = [exit EXCEPT ![p] =
                                IF short THEN "short_circuit" ELSE "success"]
                  /\ pc' = [pc EXCEPT ![p] = "returned"]
                  /\ retries_left' = [retries_left EXCEPT ![p] =
                         RetriesOnBreak(retries_left[p], retry_cnt[p])]
                  /\ UNCHANGED <<log, trace>>
             ELSE /\ retries_left' = [retries_left EXCEPT ![p] = left]
                  /\ IF Exhausted(left)
                     THEN /\ exit' = [exit EXCEPT ![p] = "exhausted"]
                          /\ pc' = [pc EXCEPT ![p] = "returned"]
                          /\ log' = [log EXCEPT ![p] =
                                 Append(@, LogEntry("warning", 111, RetryMsg))]
                          /\ UNCHANGED trace
                     ELSE /\ pc' = [pc EXCEPT ![p] = "call"]
                          /\ log' = [log EXCEPT ![p] =
                                 Append(@, LogEntry("debug", 114, RetryMsg))]
                          /\ trace' = [trace EXCEPT ![p] = @ \o OuterSleep]
                          /\ UNCHANGED exit
    /\ UNCHANGED <<zone, max_retries, response, retry_cnt, nameserver,
                   sent_messages, built>>
    /\ UNCHANGED innerVars
    /\ UNCHANGED handlerVars

Run(p) ==
    \/ MakeAndSend(p)
    \/ Attempt(p)
    \/ Return(p)
    \/ Classify(p)

Step(p) ==
    \/ GetSerialNumber(p)
    \/ Run(p)

\* one poll
Next == Step(1)

Spec == Init /\ [][Next]_vars

\* each transport call returns or raises, and the code between two
\* suspension points runs to the next one
FairSpec == Spec /\ WF_vars(Next)

\* _make_dns_message is called
MakeDnsMessage ==
    /\ \E n \in BuildNames, notify \in BOOLEAN :
          built' = [zone_name |-> n, notify |-> notify,
                    message |-> make_dns_message(n, notify)]
    /\ UNCHANGED <<pc, trace, log, sent_messages, nameserver>>
    /\ UNCHANGED outerVars
    /\ UNCHANGED innerVars
    /\ UNCHANGED handlerVars

\* a poll, and calls of _make_dns_message for a query or a NOTIFY
NextMessage ==
    \/ Step(1)
    \/ MakeDnsMessage

SpecMessage == Init /\ [][NextMessage]_vars

\* two calls with the same arguments, against a nameserver that gives the
\* same outcome to every send
InitSame ==
    /\ InitPolls
    /\ nameserver \in {{o} : o \in Outcomes}

\* get_serial_number is called again, with the arguments of the other call
Repeat(p) ==
    \E q \in AllPolls \ {p} :
        /\ pc[q] # "idle"
        /\ Call(p, zone[q], max_retries[q])

NextSame ==
    \/ GetSerialNumber(1)
    \/ Repeat(2)
    \/ Run(1)
    \/ Run(2)

SpecSame == InitSame /\ [][NextSame]_vars

\* two polls at the same time: a zone that is expected at serial 42 and a
\* deleted zone, against a nameserver that answers with the serial 42, a
\* lower serial or NXDOMAIN, times out, or refuses the connection
PairZones ==
    {[name |-> "example.com.", serial |-> 42, action |-> "UPDATE"],
     [name |-> "example.com.", serial |-> 0, action |-> "DELETE"]}

PairOutcomes ==
    {[kind |-> "reply", rcode |-> "NOERROR", aa |-> TRUE,
      answer |-> <<RR("example.com.", "IN", "SOA", 42)>>],
     [kind |-> "reply", rcode |-> "NOERROR", aa |-> TRUE,
      answer |-> <<RR("example.com.", "IN", "SOA", 40)>>],
     [kind |-> "reply", rcode |-> "NXDOMAIN", aa |-> TRUE, answer |-> << >>],
     [kind |-> "Timeout"],
     [kind |-> "socket.error", errno |-> "ECONNREFUSED"]}

InitPair ==
    /\ InitPolls
    /\ nameserver = PairOutcomes

\* get_serial_number is called while another call may be running
GetSerialNumberPair(p) ==
    \E z \in PairZones, m \in 0..PairRetriesBound : Call(p, z, m)

\* the steps of the two polls interleave
NextPair ==
    \E p \in AllPolls :
        \/ GetSerialNumberPair(p)
        \/ Run(p)

SpecPair == InitPair /\ [][NextPair]_vars

\* ------------------------------------- actions of the notification handlers
\* process_notification up to its first call of central_api
ProcessNotification ==
    /\ hpc = "idle"
    /\ \E pl \in Plugins, ev \in EventTypes, pay \in Payloads :
          /\ plugin' = pl
          /\ event_type' = ev
          /\ payload' = pay
          /\ hpc' = IF ev = CreateEnd THEN "get_zone" ELSE "find_records"
          /\ hlog' = <<HLog(IF pl = "nova_fixed" THEN "debug" ELSE "info",
                           "notification")>>
    /\ UNCHANGED <<tenant_zone, todo, records, idx, api_calls>>
    /\ UNCHANGED pollVars

\* _create_records: the try statement around _get_zone
GetZone ==
    /\ hpc = "get_zone"
    /\ \E res \in {Raise("Exception")}
                    \cup {get_zone(plugin, payload.hostname, zones) :
                             zones \in SUBSET TenantZones} :
             /\ api_calls' = Append(api_calls,
                    Api("find_zones", 0,
                        IF res = Raise("Exception") THEN "Exception"
                                                    ELSE "ok"))
             /\ tenant_zone' = res
             /\ IF res.exc # "none"
                THEN /\ todo' = << >>
                     /\ IF LookupCaught(res.exc)
                        THEN /\ hpc' = "done"
                             /\ hlog' = Append(hlog,
                                               CaughtLog(res.exc, "lookup"))
                        ELSE /\ hpc' = "raised"
                             /\ UNCHANGED hlog
                ELSE /\ todo' = Steps(payload.fixed_ips)
                     /\ hpc' = IF Steps(payload.fixed_ips) = << >>
                               THEN "done" ELSE "create"
                     /\ hlog' = Append(hlog, HLog("info", "creating"))
    /\ UNCHANGED <<plugin, event_type, payload, records, idx>>
    /\ UNCHANGED pollVars

\* the calls create_recordset and create_record of nova_custom.py for one
\* recordset, with the outcomes o1 and o2: the calls made, whether an
\* exception leaves the handler, and what is logged
CreateCalls(o1, o2) ==
    IF o1 = "ok"
    THEN <<Api("create_recordset", 0, o1), Api("create_record", 0, o2)>>
    ELSE <<Api("create_recordset", 0, o1)>>
CreateRaises(o1, o2) == o1 = "Exception" \/ (o1 = "ok" /\ o2 = "Exception")
CreateLog(o1) ==
    IF o1 = "DuplicateRecordSet" THEN <<HLog("warn", "duplicate")>>
    ELSE IF o1 = "ok" THEN <<HLog("debug", "creating record")>>
    ELSE << >>

\* what follows a step of _create_records
AfterStep(raises) ==
    IF raises THEN "raised"
    ELSE IF Tail(todo) = << >> THEN "done" ELSE "create"

\* _create_record (nova_custom.py)
CreateRecord ==
    /\ hpc = "create"
    /\ Head(todo).step = "record"
    /\ \E o1 \in {"ok", "DuplicateRecordSet", "Exception"},
          o2 \in {"ok", "Exception"} :
          /\ api_calls' = api_calls \o CreateCalls(o1, o2)
          /\ hlog' = hlog \o <<HLog("info", "create record")>> \o CreateLog(o1)
          /\ hpc' = AfterStep(CreateRaises(o1, o2))
    /\ todo' = Tail(todo)
    /\ UNCHANGED <<plugin, event_type, payload, tenant_zone, records, idx>>
    /\ UNCHANGED pollVars

\* _create_reverse_record (nova_custom.py): _get_reverse_fqdn calls join on
\* a map object for version 6 (AttributeError); for version 4, find_zones
\* and the recordset of the reverse zone, if there is one
CreateReverseRecord ==
    /\ hpc = "create"
    /\ Head(todo).step = "reverse"
    /\ IF Head(todo).version = 6
       THEN /\ hpc' = "raised"
            /\ hlog' = Append(hlog, HLog("info", "create reverse record"))
            /\ UNCHANGED api_calls
       ELSE \E zones \in {"Exception", "none", "one"},
               o1 \in {"ok", "DuplicateRecordSet", "Exception"},
               o2 \in {"ok", "Exception"} :
               /\ api_calls' = api_calls
                     \o <<Api("find_zones", 0,
                              IF zones = "Exception" THEN zones ELSE "ok")>>
                     \o (IF zones = "one" THEN CreateCalls(o1, o2) ELSE << >>)
               /\ hlog' = hlog \o <<HLog("info", "create reverse record")>>
                     \o (IF zones = "one" THEN CreateLog(o1) ELSE << >>)
               /\ hpc' = AfterStep(\/ zones = "Exception"
                                   \/ (zones = "one" /\ CreateRaises(o1, o2)))
    /\ todo' = Tail(todo)
    /\ UNCHANGED <<plugin, event_type, payload, tenant_zone, records, idx>>
    /\ UNCHANGED pollVars

\* _delete_records up to the for loop
FindRecords ==
    /\ hpc = "find_records"
    /\ \E raises \in BOOLEAN, out \in 0..MaxRecords :
          IF raises
          THEN /\ api_calls' = Append(api_calls,
                                      Api("find_records", 0, "Exception"))
               /\ hpc' = "raised"
               /\ UNCHANGED <<records, idx, hlog>>
          ELSE /\ api_calls' = Append(api_calls, Api("find_records", 0, "ok"))
               /\ records' = [i \in 1..out |-> i]
               /\ idx' = 1
               /\ hpc' = IF out = 0 THEN "done" ELSE "delete_record"
               /\ hlog' = hlog
                     \o (IF plugin = "nova_fixed"
                         THEN <<HLog("debug", "deleting records"),
                                HLog("info", "deleting records")>>
                         ELSE << >>)
                     \o (IF out = 0
                         THEN <<HLog(IF plugin = "nova_fixed"
                                     THEN "debug" ELSE "info", "no record")>>
                         ELSE << >>)
    /\ UNCHANGED <<plugin, event_type, payload, tenant_zone, todo>>
    /\ UNCHANGED pollVars

\* one pass of 'for record in records'
DeleteRecord ==
    /\ hpc = "delete_record"
    /\ \E out \in {"ok", "ZoneNotFound", "Exception"} :
          /\ api_calls' = Append(api_calls,
                                 Api("delete_record", records[idx], out))
          /\ hlog' = hlog
                \o <<HLog(IF plugin = "nova_fixed" THEN "debug" ELSE "info",
                          "deleting record")>>
                \o (IF out # "ok" /\ DeleteCaught(out)
                    THEN <<CaughtLog(out, "delete")>> ELSE << >>)
          /\ hpc' = IF out # "ok" /\ ~DeleteCaught(out) THEN "raised"
                    ELSE IF idx = Len(records) THEN "done"
                    ELSE "delete_record"
    /\ idx' = idx + 1
    /\ UNCHANGED <<plugin, event_type, payload, tenant_zone, todo, records>>
    /\ UNCHANGED pollVars

NextNotification ==
    \/ ProcessNotification
    \/ GetZone
    \/ CreateRecord
    \/ CreateReverseRecord
    \/ FindRecords
    \/ DeleteRecord

\* one notification handled by one of the two plugins
SpecNotification == Init /\ [][NextNotification]_vars

TypeOK ==
    /\ pc \in [AllPolls -> {"idle", "call", "send", "filter", "classify",
                            "returned", "raised"}]
    /\ status \in [AllPolls -> {"ERROR", "NO_ZONE", "SUCCESS"}]
    /\ \A p \in AllPolls : retries_left[p] \in Int

\* ------------------------------------------------------------ history views
Result(p) == <<status[p], actual_serial[p], retries_left[p]>>

Started(p) == pc[p] # "idle"
Terminated(p) == pc[p] \in {"returned", "raised"}

IsSend(e) == e.ev = "send"
IsOuterSleep(e) == e.ev = "sleep" /\ e.what \in {"delay", "retry_outer"}
IsInnerSleep(e) == e.ev = "sleep" /\ e.what = "retry_inner"

\* the sends of the current (or last) call of _make_and_send_dns_message:
\* those after the last sleep of the outer function
LastOuterSleep(t) ==
    IF \E i \in 1..Len(t) : IsOuterSleep(t[i])
    THEN CHOOSE i \in 1..Len(t) :
            /\ IsOuterSleep(t[i])
            /\ \A j \in (i + 1)..Len(t) : ~IsOuterSleep(t[j])
    ELSE 0
CallSends(t) == Sends(SubSeq(t, LastOuterSleep(t) + 1, Len(t)))

\* the serial of the last authoritative single-SOA answer, None without one
LastObservedSerial(t) ==
    LET soas == SelectSeq(t, LAMBDA e : IsSend(e) /\ e.what = "soa")
    IN IF soas = << >> THEN None ELSE soas[Len(soas)].serial

TransientKinds == {"Timeout", "EAGAIN"}

\* =================================================================== claims

\* ---- C1: a poll that ends because the budget is used up, without SUCCESS
\* and without the short circuit, returns status ERROR and the last observed
\* serial, also when some pass received a no-zone reply.  (Stated as the
\* claim has it; the code returns NO_ZONE after a no-zone reply.)
C1_ExhaustedReturnsError ==
    \A p \in AllPolls :
        (pc[p] = "returned" /\ exit[p] = "exhausted")
            => /\ status[p] = "ERROR"
               /\ actual_serial[p] = LastObservedSerial(trace[p])

\* ---- C2: zone example.com. with serial 42, max_retries 2: the first send
\* is answered with SOA serial 40 and the second with SOA serial 42.
C2_Scenario(p) ==
    /\ pc[p] = "returned"
    /\ zone[p].name = "example.com." /\ zone[p].serial = 42
    /\ max_retries[p] = 2
    /\ Sends(trace[p]) = <<Event("send", "soa", 40), Event("send", "soa", 42)>>

\* C2 as claimed: the scenario returns (SUCCESS, 42, 0)
C2_ScenarioReturnsZeroRetries ==
    \A p \in AllPolls : C2_Scenario(p) => Result(p) = <<"SUCCESS", 42, 0>>

\* C2 as amended: the scenario returns (SUCCESS, 42, 1), the attempt of the
\* converging pass is not subtracted
C2_ScenarioReturnsOneRetry ==
    \A p \in AllPolls : C2_Scenario(p) => Result(p) = <<"SUCCESS", 42, 1>>

C2_Witness == C2_Scenario(1)

\* ---- C3: zone serial 0, action DELETE or NONE, max_retries >= 1: a first
\* reply that says "no zone" ends the poll at once with NO_ZONE and serial 0,
\* after one send, without another send or a retry sleep.
C3_ZoneNotExpected(p) ==
    /\ zone[p].serial = 0 /\ zone[p].action \in {"DELETE", "NONE"}
    /\ max_retries[p] >= 1

C3_EndsAtOnce(p) ==
    /\ Len(Sends(trace[p])) = 1
    /\ Len(trace[p]) = 2
    /\ pc[p] \in {"filter", "classify", "returned"}
    /\ pc[p] = "returned" =>
          /\ Result(p) = <<"NO_ZONE", 0, max_retries[p]>>
          /\ exit[p] = "short_circuit"

\* C3 as claimed: any of the three rcodes, or any reply with an empty answer
C3_NoZoneOrEmptyShortCircuits ==
    \A p \in AllPolls :
        LET r == sent_response[p]
        IN (/\ C3_ZoneNotExpected(p)
            /\ Len(Sends(trace[p])) = 1
            /\ r # NoResponse
            /\ (r.rcode \in {"NXDOMAIN", "REFUSED", "SERVFAIL"}
                    \/ r.answer = << >>))
           => C3_EndsAtOnce(p)

\* C3 as amended: any of the three rcodes, or NOERROR with an empty answer
C3_NoZoneShortCircuits ==
    \A p \in AllPolls :
        LET r == sent_response[p]
            s == Sends(trace[p])
        IN /\ (/\ C3_ZoneNotExpected(p)
                /\ Len(s) = 1
                /\ r # NoResponse
                /\ \/ r.rcode \in {"NXDOMAIN", "REFUSED", "SERVFAIL"}
                   \/ (r.rcode = "NOERROR" /\ r.answer = << >>))
              => C3_EndsAtOnce(p)
           /\ (C3_ZoneNotExpected(p) /\ s # << >> /\ s[1].what = "no_zone")
              => C3_EndsAtOnce(p)

C3_Witness ==
    /\ pc[1] = "returned"
    /\ zone[1].serial = 0 /\ zone[1].action = "NONE"
    /\ max_retries[1] = 3
    /\ Len(Sends(trace[1])) = 1
    /\ sent_response[1] # NoResponse
    /\ sent_response[1].rcode = "NXDOMAIN"
    /\ exit[1] = "short_circuit"

\* ---- C4: when the Nth reply is an authoritative single-SOA answer of the
\* zone with serial >= zone.serial and every earlier reply is one with a
\* lower serial, the poll returns SUCCESS with the Nth serial, and the Nth
\* send is the last.
C4_IsSoa(e) == e.what = "soa"

C4_ConvergesAtNth ==
    \A p \in AllPolls :
        LET s == Sends(trace[p])
        IN \A n \in 1..Len(s) :
            (/\ C4_IsSoa(s[n]) /\ s[n].serial >= zone[p].serial
             /\ \A i \in 1..(n - 1) :
                    C4_IsSoa(s[i]) /\ s[i].serial < zone[p].serial)
            => /\ n = Len(s)
               /\ n <= max_retries[p]
               /\ pc[p] \in {"filter", "classify", "returned"}
               /\ pc[p] = "returned" =>
                     /\ status[p] = "SUCCESS"
                     /\ actual_serial[p] = s[n].serial
                     /\ exit[p] = "success"

C4_Witness ==
    /\ pc[1] = "returned"
    /\ zone[1].serial = 42
    /\ Sends(trace[1]) = <<Event("send", "soa", 40), Event("send", "soa", 40),
                           Event("send", "soa", 42)>>
    /\ status[1] = "SUCCESS"

\* ---- C5: when every send fails with a Timeout or EAGAIN and max_retries is
\* n >= 1, the poll returns (ERROR, None, 0) after exactly n sends, each
\* followed by a sleep of retry_interval, and raises nothing.
C5_AllTransient(t) ==
    \A i \in 1..Len(t) : IsSend(t[i]) => t[i].what \in TransientKinds

C5_AllTransientEndsInError ==
    \A p \in AllPolls :
        LET t == trace[p]
        IN (max_retries[p] >= 1 /\ C5_AllTransient(t))
           => /\ pc[p] # "raised"
              /\ Len(Sends(t)) <= max_retries[p]
              /\ \A i \in 1..Len(t) :
                    IsSend(t[i]) => i < Len(t) /\ IsInnerSleep(t[i + 1])
              /\ pc[p] = "returned" =>
                    /\ Result(p) = <<"ERROR", None, 0>>
                    /\ Len(Sends(t)) = max_retries[p]

C5_Witness ==
    /\ pc[1] = "returned"
    /\ max_retries[1] = 3
    /\ Len(Sends(trace[1])) = 3
    /\ C5_AllTransient(trace[1])
    /\ \E i \in 1..Len(trace[1]) : trace[1][i].what = "Timeout"
    /\ \E i \in 1..Len(trace[1]) : trace[1][i].what = "EAGAIN"

\* ---- C6: a BadResponse on attempt k ends the attempts of that call at k,
\* whatever budget is left: no sleep and no send follow it in the call,
\* nothing is raised, and the call returns (None, k).
C6_BadResponseEndsCall ==
    \A p \in AllPolls :
        LET t == trace[p]
        IN \A i \in 1..Len(t) :
            (IsSend(t[i]) /\ t[i].what = "BadResponse")
            => /\ i < Len(t) =>
                    t[i + 1].ev = "sleep" /\ t[i + 1].what = "retry_outer"
               /\ i = Len(t) =>
                    /\ pc[p] \in {"filter", "classify", "returned"}
                    /\ pc[p] = "filter" =>
                          /\ sent_response[p] = NoResponse
                          /\ retry[p] = Len(CallSends(t))
                    /\ pc[p] = "classify" =>
                          /\ response[p] = NoResponse
                          /\ retry_cnt[p] = Len(CallSends(t))

C6_Witness ==
    /\ pc[1] = "classify"
    /\ budget[1] = 3
    /\ retry_cnt[1] = 2
    /\ response[1] = NoResponse
    /\ trace[1][Len(trace[1])].what = "BadResponse"

\* ---- C7: a socket error whose errno is not EAGAIN propagates at once: the
\* send that raised it is the last event of the poll, whatever budget is
\* left, and the poll returns no outcome.
C7_FatalPropagates ==
    \A p \in AllPolls :
        LET t == trace[p]
        IN /\ \A i \in 1..Len(t) :
                (IsSend(t[i]) /\ t[i].what = "fatal")
                => /\ i = Len(t)
                   /\ pc[p] = "raised"
                   /\ exit[p] = "none"
           /\ pc[p] = "raised" => (t # << >> /\ t[Len(t)].what = "fatal")

C7_Witness ==
    /\ pc[1] = "raised"
    /\ budget[1] = 3 /\ retry[1] = 2
    /\ retries_left[1] = 3
    /\ exit[1] = "none"

\* ---- C8: within a poll retries_left never increases and stays within
\* 0..max_retries; a poll that has not succeeded or short-circuited stops
\* exactly when retries_left reaches 0.
C8_Step(p, stops) ==
    pc[p] # "idle" =>
        /\ retries_left'[p] <= retries_left[p]
        /\ 0 <= retries_left'[p] /\ retries_left'[p] <= max_retries'[p]
        \* reaching 0 stops the poll
        /\ (retries_left'[p] = 0 /\ retries_left[p] # 0) => pc'[p] = "returned"
        /\ pc'[p] = "send" => retries_left'[p] > 0
        \* a poll that stops without success is at 0
        /\ (pc'[p] \in stops /\ ~(pc[p] \in stops)
                /\ ~(exit'[p] \in {"success", "short_circuit"}))
            => retries_left'[p] = 0

\* C8 as claimed: every way of stopping counts
C8_StopsExactlyAtZero ==
    [][\A p \in AllPolls : C8_Step(p, {"returned", "raised"})]_vars

\* C8 as amended: a poll that returns an outcome without success or short
\* circuit does so exactly when retries_left reaches 0; a poll may also stop
\* with budget left when an unclassified socket error propagates
C8_ReturnsExactlyAtZero ==
    [][\A p \in AllPolls :
          /\ C8_Step(p, {"returned"})
          /\ (pc'[p] = "raised" /\ pc[p] # "raised")
                => trace'[p][Len(trace'[p])].what = "fatal"]_vars

C8_Witness ==
    /\ pc[1] = "returned"
    /\ exit[1] = "exhausted"
    /\ max_retries[1] = 3
    /\ retries_left[1] = 0
    /\ Len(Sleeps(trace[1], "retry_outer")) = 2

\* ---- C9: every poll terminates, for every max_retries >= 0 and every
\* sequence of transport outcomes, when each transport call returns or
\* raises; a pass of the outer loop that does not end the poll uses up at
\* least one attempt of the budget.
C9_Terminates ==
    /\ \A p \in AllPolls : Started(p) ~> Terminated(p)
    /\ [][\A p \in AllPolls :
            (pc[p] = "classify" /\ pc'[p] = "call")
                => /\ retry_cnt[p] >= 1
                   /\ retries_left'[p] < retries_left[p]]_vars

C9_Witness ==
    /\ pc[1] = "returned"
    /\ max_retries[1] = 3
    /\ Len(Sends(trace[1])) = 3
    /\ Len(Sleeps(trace[1], "retry_outer")) = 1
    /\ Len(Sleeps(trace[1], "retry_inner")) = 1

\* ---- C10: when _make_and_send_dns_message returns, the attempt count it
\* returns is the number of sends made in that call, and it lies in
\* 1..max_retries of the call, for every budget passed.
C10_CountsSends(p) ==
    pc[p] = "classify" => retry_cnt[p] = Len(CallSends(trace[p]))

\* C10 as claimed
C10_AttemptsUsedAtLeastOne ==
    \A p \in AllPolls :
        /\ C10_CountsSends(p)
        /\ pc[p] = "classify" => retry_cnt[p] \in 1..budget[p]

\* C10 as amended: the count lies in 0..max_retries of the call, and is 0
\* only when that budget is 0 (max_retries = 0: no send is made)
C10_AttemptsUsedWithinBudget ==
    \A p \in AllPolls :
        /\ C10_CountsSends(p)
        /\ pc[p] = "classify" =>
              /\ retry_cnt[p] \in 0..budget[p]
              /\ retry_cnt[p] = 0 <=> budget[p] = 0

C10_Witness ==
    /\ pc[1] = "classify"
    /\ budget[1] = 3
    /\ retry_cnt[1] = 2
    /\ response[1] = NoResponse
    /\ trace[1][Len(trace[1])].what = "invalid"
    /\ Len(Sleeps(trace[1], "retry_inner")) = 1

\* ---- C11: the validity filter, for every rcode, AA flag and empty or
\* non-empty answer of a reply: rcode NXDOMAIN, REFUSED or SERVFAIL, or
\* NOERROR with an empty answer, is returned unchanged, also without AA;
\* otherwise a reply without AA or with an rcode other than NOERROR is
\* replaced by None; otherwise (NOERROR, AA, an answer) it is returned
\* unchanged.
C11_FilterTable ==
    \A p \in AllPolls :
        LET r == sent_response[p]
            kept == \/ r.rcode \in {"NXDOMAIN", "REFUSED", "SERVFAIL"}
                    \/ (r.rcode = "NOERROR" /\ r.answer = << >>)
        IN (pc[p] = "classify" /\ r # NoResponse)
           => /\ kept => response[p] = r
              /\ (~kept /\ (~r.aa \/ r.rcode # "NOERROR"))
                    => response[p] = NoResponse
              /\ (r.rcode = "NOERROR" /\ r.aa /\ r.answer # << >>)
                    => response[p] = r

C11_Witness ==
    /\ pc[1] = "classify"
    /\ sent_response[1] # NoResponse
    /\ sent_response[1].rcode = "NOERROR"
    /\ ~sent_response[1].aa
    /\ sent_response[1].answer = << >>
    /\ response[1] = sent_response[1]

\* ---- C12: a reply with rcode NOERROR, AA set and two answer records (any
\* number other than one) leaves actual_serial as it was and does not end
\* the pass in SUCCESS; the attempts of the pass are taken off the budget.
C12_Step(p, counts) ==
    LET r == sent_response[p]
    IN (/\ pc[p] = "classify" /\ pc'[p] # "classify"
        /\ r # NoResponse
        /\ r.rcode = "NOERROR" /\ r.aa
        /\ Len(r.answer) \in counts)
       => /\ actual_serial'[p] = actual_serial[p]
          /\ status'[p] # "SUCCESS"
          /\ exit'[p] # "success"
          /\ retries_left'[p] = retries_left[p] - retry_cnt[p]

\* C12 as claimed: every number of records other than one
C12_NotOneRecordNoConvergence ==
    [][\A p \in AllPolls : C12_Step(p, {0, 2})]_vars

\* C12 as amended: two records (more than one)
C12_TwoRecordsNoConvergence ==
    [][\A p \in AllPolls : C12_Step(p, {2})]_vars

C12_Witness ==
    /\ pc[1] = "call"
    /\ sent_response[1] # NoResponse
    /\ sent_response[1].rcode = "NOERROR" /\ sent_response[1].aa
    /\ Len(sent_response[1].answer) = 2
    /\ actual_serial[1] = 40
    /\ max_retries[1] = 3 /\ retries_left[1] = 1

\* ---- C13: two runs of get_serial_number with the same arguments, against
\* a nameserver that gives the same outcome to every send, end the same way
\* with the same status, serial and retries, and no run changes the zone.
C13_SameRunsSameResult ==
    /\ []((Terminated(1) /\ Terminated(2))
            => /\ zone[1] = zone[2] /\ max_retries[1] = max_retries[2]
               /\ pc[1] = pc[2]
               /\ Result(1) = Result(2))
    /\ [][\A p \in AllPolls : Started(p) => zone'[p] = zone[p]]_vars

C13_Witness ==
    /\ pc[1] = "returned" /\ pc[2] = "returned"
    /\ max_retries[1] = 3
    /\ Result(1) = <<"NO_ZONE", None, 0>>
    /\ Result(2) = <<"NO_ZONE", None, 0>>
    /\ Len(Sends(trace[2])) = 3

\* ---- C14: every poll that returns an outcome (SUCCESS, the short circuit,
\* the budget used up) writes, where it ends, a log entry with the zone,
\* host, port and serial.
C14_Context == {"zone", "host", "port", "serial"}

C14_LoggedAtEnd(p) ==
    /\ log[p] # << >>
    /\ C14_Context \subseteq log[p][Len(log[p])].ctx

\* C14 as claimed
C14_EveryReturnLogged ==
    \A p \in AllPolls : pc[p] = "returned" => C14_LoggedAtEnd(p)

\* C14 as amended: the poll that ends with its budget used up writes the
\* warning of line 111 with zone, host, port and both serials; SUCCESS and
\* the short circuit write nothing where they end: the last entry of a poll
\* that made a send is then the one of that send, with zone, host and port
\* and without a serial
C14_ExhaustionLogged ==
    \A p \in AllPolls :
        /\ (pc[p] = "returned" /\ exit[p] = "exhausted")
              => /\ C14_LoggedAtEnd(p)
                 /\ log[p][Len(log[p])].level = "warning"
                 /\ log[p][Len(log[p])].line = 111
        /\ (pc[p] = "returned" /\ exit[p] \in {"success", "short_circuit"})
              => /\ log[p] # << >>
                 /\ log[p][Len(log[p])] = SendingLog
                 /\ ~("serial" \in log[p][Len(log[p])].ctx)

C14_Witness ==
    /\ pc[1] = "returned"
    /\ exit[1] = "exhausted"
    /\ status[1] = "NO_ZONE"
    /\ Len(log[1]) = 6
    /\ log[1][6] = LogEntry("warning", 111, RetryMsg)

\* ---- C15: the status returned by get_serial_number is "SUCCESS" or
\* "ERROR", and the serial returned is the serial of the nameserver's SOA
\* answer or None.  (Stated as the docstring has it; the code also returns
\* NO_ZONE, and the serial 0 of the short circuit.)
C15_StatusSuccessOrError ==
    \A p \in AllPolls :
        pc[p] = "returned"
            => /\ status[p] \in {"SUCCESS", "ERROR"}
               /\ actual_serial[p] \in {None, LastObservedSerial(trace[p])}

\* ---- C16: _make_dns_message builds a message of type SOA for the zone
\* name; without notify its opcode is QUERY and its flags are exactly {RD},
\* with notify its opcode is NOTIFY and its flags are exactly {AA}; every
\* message sent by get_serial_number is of the first kind, and one call of
\* _make_and_send_dns_message sends the same message at every attempt.
C16_Query(n) ==
    [name |-> n, rdtype |-> "SOA", opcode |-> "QUERY", flags |-> {"RD"}]
C16_Notify(n) ==
    [name |-> n, rdtype |-> "SOA", opcode |-> "NOTIFY", flags |-> {"AA"}]

C16_MessagesBuilt ==
    /\ built # NotBuilt =>
          built.message = IF built.notify THEN C16_Notify(built.zone_name)
                                          ELSE C16_Query(built.zone_name)
    /\ \A p \in AllPolls :
          /\ \A i \in 1..Len(sent_messages[p]) :
                sent_messages[p][i] = C16_Query(zone[p].name)
          /\ Len(sent_messages[p]) = Len(Sends(trace[p]))
          /\ pc[p] \in {"send", "filter"} => dns_message[p] = C16_Query(zone[p].name)

C16_Witness ==
    /\ built # NotBuilt
    /\ built.notify
    /\ built.zone_name = "other.org."
    /\ built.message.flags = {"AA"}
    /\ pc[1] = "filter"
    /\ retry[1] = 3
    /\ Len(sent_messages[1]) = 3

\* ---- C17: polls are independent under interleaving: with the steps of two
\* get_serial_number calls interleaved, the status, actual_serial and
\* retries_left of each poll, and whether it returned or raised, are those
\* of the poll run alone against the same outcomes of its own sends; and no
\* step of one poll changes anything of the other poll.

\* get_serial_number run alone on the zone z against the sends whose
\* outcomes are s (from the i-th on): where it stands when s is used up, and
\* its locals.  st: status, ser: actual_serial, left: retries_left, r: retry
\* of the running call of _make_and_send_dns_message.
RECURSIVE Alone(_, _, _, _, _, _, _)
Alone(z, s, i, st, ser, left, r) ==
    LET Locals(where, st2, ser2, left2) ==
            [pc |-> where, status |-> st2, actual_serial |-> ser2,
             retries_left |-> left2]
        \* lines 76-116, for the response class w with the serial sn, after
        \* cnt attempts
        Outer(w, sn, cnt, nxt) ==
            LET nozone == w = "no_zone"
                short == /\ nozone
                         /\ z.serial = 0
                         /\ z.action \in {"DELETE", "NONE"}
                ser2 == IF w = "soa" THEN sn ELSE ser
                st2 == IF nozone THEN "NO_ZONE" ELSE st
            IN IF short THEN Locals("returned", "NO_ZONE", 0, left)
               ELSE IF ser2 # None /\ ser2 >= z.serial
               THEN Locals("returned", "SUCCESS", ser2, left)
               ELSE IF left - cnt = 0
               THEN Locals("returned", st2, ser2, 0)
               ELSE Alone(z, s, nxt, st2, ser2, left - cnt, 0)
    IN IF ~(r < left) THEN Outer("None", None, r, i)
       ELSE IF i > Len(s) THEN Locals("send", st, ser, left)
       ELSE IF s[i].what \in {"Timeout", "EAGAIN"}
       THEN Alone(z, s, i + 1, st, ser, left, r + 1)
       ELSE IF s[i].what = "fatal" THEN Locals("raised", st, ser, left)
       ELSE IF s[i].what \in {"BadResponse", "invalid", "invalid_empty"}
       THEN Outer("None", None, r + 1, i + 1)
       ELSE Outer(s[i].what, s[i].serial, r + 1, i + 1)

RunAlone(z, m, s) == Alone(z, s, 1, "ERROR", None, m, 0)

\* everything the model keeps for the poll p
PollState(p) ==
    <<pc[p], zone[p], max_retries[p], actual_serial[p], status[p],
      retries_left[p], response[p], retry_cnt[p], dns_message[p], budget[p],
      retry[p], sent_response[p], exit[p], log[p], sent_messages[p],
      trace[p]>>

C17_AsAlone ==
    \A p \in AllPolls :
        pc[p] \in {"send", "returned", "raised"} =>
            RunAlone(zone[p], max_retries[p], Sends(trace[p]))
                = [pc |-> pc[p], status |-> status[p],
                   actual_serial |-> actual_serial[p],
                   retries_left |-> retries_left[p]]

C17_Frame ==
    \A p \in AllPolls :
        PollState(p)' # PollState(p) =>
            \A q \in AllPolls \ {p} : PollState(q)' = PollState(q)

C17_PollsIndependent == []C17_AsAlone /\ [][C17_Frame]_vars

C17_Witness ==
    /\ pc[1] = "returned"
    /\ status[1] = "SUCCESS"
    /\ Len(Sends(trace[1])) = 2
    /\ pc[2] = "send"
    /\ zone[2] # zone[1]
    /\ Len(Sends(trace[2])) = 1

\* ---- C18: when the poll ends with SUCCESS or with the short-circuited
\* NO_ZONE, the retries_left it returns is the budget as it stood at the
\* start of the last pass of the outer loop: the attempts of the last call of
\* _make_and_send_dns_message are not subtracted.
C18_LastPassNotCounted ==
    \A p \in AllPolls :
        (pc[p] = "returned" /\ exit[p] \in {"success", "short_circuit"}) =>
            /\ retries_left[p] = budget[p]
            /\ retry_cnt[p] = Len(CallSends(trace[p]))
            /\ retry_cnt[p] >= 1
            /\ retries_left[p]
                 = max_retries[p]
                     - (Len(Sends(trace[p])) - Len(CallSends(trace[p])))

C18_Witness ==
    /\ pc[1] = "returned"
    /\ exit[1] = "success"
    /\ max_retries[1] = 3
    /\ retry_cnt[1] = 2
    /\ retries_left[1] = 2
    /\ Len(Sends(trace[1])) = 3

\* ---- C19: a malformed reply (BadResponse) is not fatal to the poll: after
\* a pass of the outer loop whose inner loop was ended by a BadResponse at
\* its k-th attempt, actual_serial is unchanged and retries_left is reduced
\* by exactly k; if retries_left is still positive the poll sleeps
\* retry_interval and goes on to a further send in a new pass, and if it is
\* 0 the poll returns an outcome other than SUCCESS and raises nothing.
C19_OuterSleep == Event("sleep", "retry_outer", None)

C19_Aborted(t) ==
    /\ t # << >>
    /\ t[Len(t)] = Event("send", "BadResponse", None)

C19_Step ==
    \A p \in AllPolls :
        /\ (C19_Aborted(trace[p]) /\ pc[p] = "filter" /\ pc'[p] # "filter") =>
              /\ pc'[p] = "classify"
              /\ response'[p] = NoResponse
              /\ retry_cnt'[p] = Len(CallSends(trace[p]))
        /\ (C19_Aborted(trace[p]) /\ pc[p] = "classify"
                /\ pc'[p] # "classify") =>
              LET k == Len(CallSends(trace[p]))
              IN /\ k >= 1
                 /\ actual_serial'[p] = actual_serial[p]
                 /\ retries_left'[p] = retries_left[p] - k
                 /\ status'[p] # "SUCCESS"
                 /\ IF retries_left'[p] > 0
                    THEN /\ pc'[p] = "call"
                         /\ trace'[p] = Append(trace[p], C19_OuterSleep)
                    ELSE /\ retries_left'[p] = 0
                         /\ pc'[p] = "returned"
                         /\ exit'[p] = "exhausted"
        /\ (/\ pc[p] = "call"
            /\ pc'[p] # "call"
            /\ Len(trace[p]) >= 2
            /\ trace[p][Len(trace[p])] = C19_OuterSleep
            /\ C19_Aborted(SubSeq(trace[p], 1, Len(trace[p]) - 1))) =>
              /\ pc'[p] = "send"
              /\ budget'[p] = retries_left[p]

C19_BadResponseNotFatal == [][C19_Step]_vars

C19_Witness ==
    /\ pc[1] = "filter"
    /\ max_retries[1] = 3
    /\ retries_left[1] = 1
    /\ Len(trace[1]) = 6
    /\ trace[1][2].what = "Timeout"
    /\ trace[1][4].what = "BadResponse"
    /\ trace[1][5] = C19_OuterSleep
    /\ IsSend(trace[1][6])

\* ---- C20: a non-authoritative answer is never trusted: a reply with rcode
\* NOERROR, a non-empty answer and the AA flag unset is discarded by
\* _make_and_send_dns_message, so get_serial_number neither sets
\* actual_serial from it nor ends with SUCCESS in that pass, even when its
\* SOA serial is >= zone.serial; the pass is handled as a retry
\* (retries_left reduced by the attempts made) and nothing is raised.
C20_NonAuthoritative(r) ==
    /\ r # NoResponse
    /\ r.rcode = "NOERROR"
    /\ r.answer # << >>
    /\ ~r.aa

C20_Step ==
    \A p \in AllPolls :
        /\ (/\ C20_NonAuthoritative(sent_response[p])
            /\ pc[p] = "filter"
            /\ pc'[p] # "filter") =>
              /\ pc'[p] = "classify"
              /\ response'[p] = NoResponse
              /\ retry_cnt'[p] = Len(CallSends(trace[p]))
              /\ retry_cnt'[p] >= 1
        /\ (/\ C20_NonAuthoritative(sent_response[p])
            /\ pc[p] = "classify"
            /\ pc'[p] # "classify") =>
              /\ actual_serial'[p] = actual_serial[p]
              /\ status'[p] = status[p]
              /\ status'[p] # "SUCCESS"
              /\ retries_left'[p] = retries_left[p] - retry_cnt[p]
              /\ exit'[p] \in {"none", "exhausted"}
              /\ pc'[p] = IF retries_left'[p] = 0 THEN "returned" ELSE "call"

C20_NonAuthoritativeDiscarded == [][C20_Step]_vars

C20_Witness ==
    /\ pc[1] = "call"
    /\ zone[1].serial = 42
    /\ sent_response[1]
         = [kind |-> "reply", rcode |-> "NOERROR", aa |-> FALSE,
            answer |-> <<RR("example.com.", "IN", "SOA", 42)>>]
    /\ actual_serial[1] = None
    /\ status[1] = "ERROR"
    /\ max_retries[1] = 3
    /\ retries_left[1] = 1

\* ---- C21: the number of sends made during one poll never exceeds
\* max_retries, whatever the outcomes of the sends and however the attempts
\* are split between the inner loop and the passes of the outer loop: each
\* call of _make_and_send_dns_message is given only the budget that is left,
\* and retries_left is reduced by the attempts of each pass that does not end
\* the poll.
C21_SendsWithinBudget ==
    \A p \in AllPolls :
        Started(p) =>
            LET total == Len(Sends(trace[p]))
                now == Len(CallSends(trace[p]))
                inCall == pc[p] \in {"send", "filter", "classify", "raised"}
                kept == pc[p] = "returned"
                           /\ exit[p] \in {"success", "short_circuit"}
            IN /\ total <= max_retries[p]
               /\ retries_left[p] >= 0
               /\ inCall => /\ budget[p] = retries_left[p]
                            /\ retry[p] = now
                            /\ now <= budget[p]
               /\ (inCall \/ kept) =>
                      retries_left[p] = max_retries[p] - (total - now)
               /\ ~(inCall \/ kept) => retries_left[p] = max_retries[p] - total

C21_Witness ==
    /\ pc[1] = "returned"
    /\ max_retries[1] = 3
    /\ Len(Sends(trace[1])) = 3
    /\ Len(Sleeps(trace[1], "retry_outer")) = 1
    /\ Len(Sleeps(trace[1], "retry_inner")) = 2

\* ---- C22: ordering within one poll: the delay is slept exactly once and
\* before the first send; every send is made only after the outcome of the
\* send before it (a reply, a transient failure or a BadResponse) is known;
\* between two passes of the outer loop the poll sleeps retry_interval, and
\* no sleep of the outer loop follows the pass that ends the poll.
C22_Delay == Event("sleep", "delay", None)
C22_Retry == Event("sleep", "retry_outer", None)

C22_Ordered ==
    \A p \in AllPolls :
        Started(p) =>
            LET t == trace[p]
                n == Len(t)
            IN /\ n >= 1
               /\ t[1] = C22_Delay
               /\ \A i \in 2..n : t[i] # C22_Delay
               \* each send made has its outcome before anything else is done
               /\ Len(sent_messages[p]) = Len(Sends(t))
               /\ \A i \in 1..(n - 1) :
                     \* a sleep is followed by a send
                     /\ ~IsSend(t[i]) => IsSend(t[i + 1])
                     \* a transient failure: the inner loop sleeps
                     /\ (IsSend(t[i]) /\ t[i].what \in {"Timeout", "EAGAIN"})
                           => IsInnerSleep(t[i + 1])
                     \* any other outcome ends the pass: the next send comes
                     \* after the sleep of the outer loop
                     /\ (IsSend(t[i]) /\ t[i].what \notin {"Timeout", "EAGAIN"})
                           => t[i + 1] = C22_Retry
               /\ t[n] = C22_Retry => pc[p] \in {"call", "send"}
               /\ Terminated(p) => t[n] # C22_Retry

C22_Witness ==
    /\ pc[1] = "returned"
    /\ status[1] = "SUCCESS"
    /\ Len(trace[1]) = 6
    /\ trace[1][1] = C22_Delay
    /\ trace[1][2].what = "soa"
    /\ trace[1][3] = C22_Retry
    /\ trace[1][4].what = "Timeout"
    /\ IsInnerSleep(trace[1][5])
    /\ trace[1][6].what = "soa"

\* ---- C23: status is sticky: it starts as ERROR, is set to NO_ZONE by any
\* pass of the outer loop whose reply is a no-zone reply, and is never set
\* back to ERROR; so a poll that ends because its budget is used up returns
\* NO_ZONE if and only if at least one of its passes received a no-zone
\* reply, and ERROR otherwise.
C23_Step ==
    \A p \in AllPolls :
        /\ (pc[p] = "idle" /\ pc'[p] # "idle") => status'[p] = "ERROR"
        /\ (pc[p] # "idle" /\ status[p] # "ERROR") => status'[p] # "ERROR"
        /\ (/\ pc[p] = "classify"
            /\ pc'[p] # "classify"
            /\ trace[p][Len(trace[p])].what = "no_zone") =>
              status'[p] = "NO_ZONE"

\* the poll p ended because its budget was used up, and returns NO_ZONE
\* exactly when one of its sends had an outcome of one of the classes
C23_ExhaustedStatus(p, classes) ==
    (pc[p] = "returned" /\ exit[p] = "exhausted") =>
        /\ status[p] \in {"NO_ZONE", "ERROR"}
        /\ status[p] = "NO_ZONE"
             <=> \E i \in 1..Len(trace[p]) :
                    IsSend(trace[p][i]) /\ trace[p][i].what \in classes

C24_SuccessFromLastReply ==
    \A p \in AllPolls :
        /\ status[p] = "SUCCESS" =>
              LET r == sent_response[p]
                  t == trace[p]
              IN /\ pc[p] = "returned"
                 /\ exit[p] = "success"
                 /\ actual_serial[p] # None
                 /\ actual_serial[p] >= zone[p].serial
                 /\ r # NoResponse
                 /\ response[p] = r
                 /\ Len(r.answer) = 1
                 /\ r.answer[1]
                      = RR(zone[p].name, "IN", "SOA", actual_serial[p])
                 /\ t[Len(t)] = Event("send", "soa", actual_serial[p])
        /\ pc[p] \in {"call", "send", "filter", "classify"} =>
              \/ actual_serial[p] = None
              \/ actual_serial[p] < zone[p].serial

C24_Witness ==
    /\ pc[1] = "returned"
    /\ status[1] = "SUCCESS"
    /\ actual_serial[1] = 42
    /\ Len(trace[1]) = 4
    /\ trace[1][2] = Event("send", "soa", 40)
    /\ trace[1][4] = Event("send", "soa", 42)

\* ---- C25: with max_retries = 0 the poll sleeps the delay, makes no send
\* at all (_make_and_send_dns_message returns (None, 0)), and returns
\* (ERROR, None, 0) after a single pass of the outer loop, without a sleep
\* of retry_interval.
C25_ZeroRetries ==
    \A p \in AllPolls :
        (Started(p) /\ max_retries[p] = 0) =>
            /\ trace[p] = <<Event("sleep", "delay", None)>>
            /\ sent_messages[p] = << >>
            /\ pc[p] \in {"call", "filter", "classify", "returned"}
            /\ pc[p] \in {"classify", "returned"} =>
                  /\ response[p] = NoResponse
                  /\ retry_cnt[p] = 0
            /\ pc[p] = "returned" =>
                  /\ Result(p) = <<"ERROR", None, 0>>
                  /\ exit[p] = "exhausted"
            /\ pc[p] # "returned" => exit[p] = "none"

C25_Witness ==
    /\ pc[1] = "returned"
    /\ max_retries[1] = 0
    /\ zone[1].serial = 0
    /\ zone[1].action = "DELETE"
    /\ Result(1) = <<"ERROR", None, 0>>

\* ---- C26: when zone.serial is 0, any valid authoritative reply with
\* exactly one SOA record of the zone ends the poll with SUCCESS and the
\* serial of that record, for every zone.action, DELETE and NONE included: a
\* nameserver that still serves a zone expected to be absent is reported as
\* SUCCESS, not as NO_ZONE or ERROR.
C26_ServedZoneIsSuccess ==
    \A p \in AllPolls :
        (Started(p) /\ zone[p].serial = 0) =>
            \A i \in 1..Len(trace[p]) :
                (IsSend(trace[p][i]) /\ trace[p][i].what = "soa") =>
                    /\ i = Len(trace[p])
                    /\ sent_response[p].rcode = "NOERROR"
                    /\ sent_response[p].aa
                    /\ pc[p] \in {"filter", "classify", "returned"}
                    /\ pc[p] = "classify" => response[p] = sent_response[p]
                    /\ pc[p] = "returned" =>
                          /\ status[p] = "SUCCESS"
                          /\ actual_serial[p] = trace[p][i].serial
                          /\ exit[p] = "success"

C26_Witness ==
    /\ pc[1] = "returned"
    /\ zone[1].serial = 0
    /\ zone[1].action = "DELETE"
    /\ status[1] = "SUCCESS"
    /\ actual_serial[1] = 40
    /\ Len(Sends(trace[1])) = 2
    /\ trace[1][2].what = "invalid"

\* ---- C27: in both notification handlers, _delete_records calls
\* central_api.delete_record exactly once for every record returned by
\* find_records, in order: a ZoneNotFound or any other exception raised by
\* the deletion of one record is caught and logged, does not leave
\* process_notification, and does not prevent the deletion of the records
\* that remain.
C27_Deletes == SelectSeq(api_calls, LAMBDA c : c.op = "delete_record")
C27_Failed == SelectSeq(C27_Deletes, LAMBDA c : c.out # "ok")
C27_Logged ==
    SelectSeq(hlog, LAMBDA e : e.what = "delete")
C27_RecordsFound ==
    \E i \in 1..Len(api_calls) :
        api_calls[i] = Api("find_records", 0, "ok")

C27_EveryRecordDeleted ==
    (event_type = DeleteStart /\ C27_RecordsFound) =>
        /\ hpc \in {"delete_record", "done"}
        /\ hpc = "done" => Len(C27_Deletes) = Len(records)
        /\ hpc = "delete_record" =>
              /\ Len(C27_Deletes) = idx - 1
              /\ idx <= Len(records)
        /\ \A k \in 1..Len(C27_Deletes) : C27_Deletes[k].arg = records[k]
        /\ Len(C27_Logged) = Len(C27_Failed)
        /\ \A k \in 1..Len(C27_Failed) :
              k <= Len(C27_Logged)
                 => C27_Logged[k].level
                       = IF C27_Failed[k].out = "ZoneNotFound"
                         THEN "warn" ELSE "error"

C27_Witness ==
    /\ hpc = "done"
    /\ plugin = "nova_fixed"
    /\ Len(records) = 2
    /\ Len(C27_Deletes) = 2
    /\ C27_Deletes[1].out = "Exception"
    /\ C27_Deletes[2].out = "ok"

\* ---- C28: in both notification handlers, when the zone lookup for a
\* compute.instance.create.end notification fails (ZoneNotFound because no
\* zone of the tenant matches the hostname, or any other exception raised
\* during the lookup), _create_records makes no create_recordset,
\* create_record or delete_recordset call to central_api and no exception
\* leaves process_notification.
C28_LookupFailed ==
    /\ event_type = CreateEnd
    /\ tenant_zone.exc \notin {"unset", "none"}

C28_FailedLookupCreatesNothing ==
    C28_LookupFailed =>
        /\ hpc = "done"
        /\ todo = << >>
        /\ \A i \in 1..Len(api_calls) :
              api_calls[i].op \notin {"create_recordset", "create_record",
                                      "delete_recordset"}
        /\ hlog[Len(hlog)] = CaughtLog(tenant_zone.exc, "lookup")

C28_Witness ==
    /\ hpc = "done"
    /\ plugin = "nova_custom"
    /\ C28_LookupFailed
    /\ tenant_zone.exc = "Exception"
    /\ payload.fixed_ips = {4, 6}

=============================================================================
